---- MODULE Spec2Model ----
(***************************************************************************)
(* A model of the terminal prompt library fyrna/prompt.                    *)
(*                                                                         *)
(* The repository holds four iterations of the same component:             *)
(*   "A"  src/prompt.go lines    1 ..  532  (screenCfg, Ctrl-C and Ctrl-Q) *)
(*   "B"  src/prompt.go lines  534 .. 1002  (exported Terminal, Ctrl-C)    *)
(*   "C"  src/prompt.go lines 1004 .. 1720  (runRaw over fyrna/x/term)     *)
(*   "U"  src/unnamed/part_000              (runRaw over golang.org/x/term)*)
(* One Run of one prompt kind of one iteration is modelled, together with  *)
(* the goroutine that Run starts to watch SIGINT/SIGTERM.                  *)
(***************************************************************************)
EXTENDS Integers, Sequences, FiniteSets, TLC

\* ---------------------------------------------------------------- bounds
MaxKeys == 3
MaxOptions == 3
MaxSignals == 1
MaxTitleWidth == 2
MaxMargin == 2

\* ------------------------------------------------------- program constants
keyCtrlC == 3
keyCtrlQ == 17
keyBackspace1 == 127
keyBackspace2 == 8
byteCR == 13
byteLF == 10
byteSpace == 32
byteESC == 27
byteBracket == 91
byteTilde == 126
byteA == 65
byteB == 66
byteC == 67
byteD == 68
byteUpperY == 89
byteUpperN == 78
byteLowerY == 121
byteLowerN == 110
RuneError == 65533

keyArrowUp == <<byteESC, byteBracket, byteA>>
keyArrowDown == <<byteESC, byteBracket, byteB>>
keyArrowRight == <<byteESC, byteBracket, byteC>>
keyArrowLeft == <<byteESC, byteBracket, byteD>>
keyEnter == <<byteCR>>
keySpace == <<byteSpace>>

\* Sample chunks that no iteration names: the letter h, an escape sequence
\* that is no arrow key, the two bytes of U+00E9, and a lone UTF-8 lead byte.
chunkH == <<104>>
chunkOtherEscape == <<byteESC, byteBracket, 90>>
chunkEAcute == <<195, 169>>
chunkBadUtf8 == <<195>>

\* The chunks one read of standard input may deliver (readKey: up to 8 bytes).
\* The letters y, Y, n, N mean something to Confirm only; to the other kinds
\* they are printable runes like h.
ControlChunks ==
  { <<keyCtrlC>>, <<keyCtrlQ>>, <<byteCR>>, <<byteLF>>,
    <<keyBackspace1>>, <<keyBackspace2>>, <<byteSpace>>, chunkH,
    keyArrowUp, keyArrowDown, keyArrowRight, keyArrowLeft,
    <<byteESC>>, chunkOtherEscape, chunkEAcute, chunkBadUtf8 }

AnswerChunks == { <<byteLowerY>>, <<byteUpperY>>, <<byteLowerN>>, <<byteUpperN>> }

Chunks(k) == IF k = "Confirm" THEN ControlChunks \cup AnswerChunks ELSE ControlChunks

Impls == {"A", "B", "C", "U"}
Kinds == {"Confirm", "Input", "Select", "MultiSelect"}
AllOptions == <<"a", "b", "c", "d", "e">>
BindTargets == {"nil", "nonPtr", "ptrString", "ptrInt", "ptrStringSlice", "ptrAnySlice", "ptrIntSlice"}

VARIABLES
  impl,        \* which iteration of the component runs
  kind,        \* which prompt kind runs
  isTTY,       \* standard input is a terminal
  def,         \* Confirm.def
  options,     \* Select/MultiSelect options (their values, in list order)
  validator,   \* InputPrompt.validate: "none" or "nonEmpty" (rejects the empty string)
  bind,        \* what valuePtr is: "nil" or the shape of the destination
  optionValues,\* the dynamic type of the options' values: "string" or "int"
  value,       \* the caller's storage behind valuePtr
  pc,          \* position of the thread that called Run
  termMode,    \* the terminal's mode: "cooked" or "raw"
  oldState,    \* the wrapper's saved mode: "nil" or "saved"
  notified,    \* signal.Notify(sig, SIGINT, SIGTERM) is in force
  sigBuf,      \* signals waiting in the channel sig (capacity 1)
  obs,         \* position of the observer goroutine
  exited,      \* the process has terminated
  pending,     \* the chunk the last read returned, not yet handled
  buf,         \* Input: the rune buffer
  cursor,      \* Input: the cursor
  highlight,   \* Select/MultiSelect: the highlighted index (0-based)
  selected,    \* MultiSelect: the selected flags
  res,         \* the result Run hands back
  err,         \* the error Run hands back
  cursorHidden,\* the terminal's cursor glyph is hidden
  row,         \* the terminal cursor's row, counted from where the first frame began
  runs,        \* two Runs on one terminal at once: each one's position, saved mode, reads
  nReads,      \* reads of standard input that returned
  nRestores,   \* executions of term.Restore on the saved mode
  nSignals,    \* signals delivered to the process
  endKey,      \* the chunk whose handling ended the loop
  sigAtRead    \* a signal was delivered to sig while Run was blocked in its read

vars == <<impl, kind, isTTY, def, options, validator, bind, optionValues, value, pc, termMode,
          oldState, notified, sigBuf, obs, exited, pending, buf, cursor, highlight,
          selected, res, err, cursorHidden, row, nReads, nRestores, nSignals, endKey,
          sigAtRead, runs>>

config == <<impl, kind, isTTY, def, options, validator, bind, optionValues>>

\* ------------------------------------------------------------ the wrapper

\* runRaw is used by iterations C and U; A and B inline the same steps in
\* Input, Select and MultiSelect, and their Confirm never enters raw mode.
UsesRaw(im, k) == ~(im \in {"A", "B"} /\ k = "Confirm")

\* Run checks len(options) == 0 itself, before runRaw (C and U only).
ChecksOptions(im, k) == im \in {"C", "U"} /\ k \in {"Select", "MultiSelect"}

\* newTerminal tests IsTerminal in C and U; in A and B enterRaw does.
OpenChecksTTY(im) == im \in {"C", "U"}

\* terminal.restore: the mode after it, from the saved mode and the current one.
RestoreNoop(old, mode) == mode
restore(old, mode) == IF old = "nil" THEN mode ELSE "cooked"

\* terminal.restore leaves oldState as it is in A, B and U.
restoreKeeps(old) == old

\* fyrna/x/term Terminal.Restore (used by C): idempotent, forgets the saved mode.
XTermRestoreState(old) == "nil"

OldStateAfterRestore(im, old) == IF im = "C" THEN XTermRestoreState(old) ELSE restoreKeeps(old)

\* One more execution of term.Restore iff a saved mode is there.
RestoreCount(old, n) == IF old = "nil" THEN n ELSE n + 1

\* ------------------------------------------------------------ key decoding

\* utf8.DecodeRune on a chunk of at most two bytes: the rune.
DecodeRune(c) ==
  IF Len(c) = 0 THEN RuneError
  ELSE IF c[1] < 128 THEN c[1]
  ELSE IF c[1] >= 194 /\ c[1] <= 223 /\ Len(c) >= 2 /\ c[2] >= 128 /\ c[2] <= 191
       THEN (c[1] - 192) * 64 + (c[2] - 128)
  ELSE RuneError

\* fyrna/x/term/key Reader.ReadEvent (used by C), as section 4.2 describes it.
DecodeEvent(c) ==
  IF c = <<keyCtrlC>> THEN [key |-> "Ctrl", rune |-> 99]
  ELSE IF c = <<keyCtrlQ>> THEN [key |-> "Ctrl", rune |-> 113]
  ELSE IF c[1] \in {byteCR, byteLF} THEN [key |-> "Enter", rune |-> 0]
  ELSE IF c[1] \in {keyBackspace1, keyBackspace2} THEN [key |-> "Backspace", rune |-> 0]
  ELSE IF c[1] = byteSpace THEN [key |-> "Space", rune |-> 0]
  ELSE IF c[1] = byteESC THEN
       IF c = keyArrowUp THEN [key |-> "Up", rune |-> 0]
       ELSE IF c = keyArrowDown THEN [key |-> "Down", rune |-> 0]
       ELSE IF c = keyArrowRight THEN [key |-> "Right", rune |-> 0]
       ELSE IF c = keyArrowLeft THEN [key |-> "Left", rune |-> 0]
       ELSE [key |-> "Unknown", rune |-> 0]
  ELSE IF DecodeRune(c) = RuneError \/ c[1] < byteSpace THEN [key |-> "Unknown", rune |-> 0]
  ELSE [key |-> "Rune", rune |-> DecodeRune(c)]

IsCancelEvent(ev) == ev.key = "Ctrl" /\ ev.rune \in {99, 113}

\* The bytes the byte-level loops of Confirm and Input take as cancellation.
CancelBytes(im) == IF im = "B" THEN {keyCtrlC} ELSE {keyCtrlC, keyCtrlQ}

\* ---------------------------------------------------------- buffer editing
MoveLeftNoClamp(c) == c - 1
MoveLeft(c) == IF c > 0 THEN c - 1 ELSE c

MoveRight(b, c) == IF c < Len(b) THEN c + 1 ELSE c

DeleteLast(b, c) == SubSeq(b, 1, Len(b) - 1)
DeleteBefore(b, c) == SubSeq(b, 1, c - 1) \o SubSeq(b, c + 1, Len(b))

InsertAppend(b, c, r) == b \o <<r>>
InsertAt(b, c, r) == SubSeq(b, 1, c) \o <<r>> \o SubSeq(b, c + 1, Len(b))

Rejects(v, s) == v = "nonEmpty" /\ s = <<>>

\* ---------------------------------------------------------- list browsing
HighlightUp(h) == IF h > 0 THEN h - 1 ELSE h

HighlightDownNoClamp(h, n) == h + 1
HighlightDown(h, n) == IF h < n - 1 THEN h + 1 ELSE h

ToggleOn(sel, h) == [sel EXCEPT ![h + 1] = TRUE]
Toggle(sel, h) == [sel EXCEPT ![h + 1] = ~sel[h + 1]]

\* s.options[cursor]: the option under the highlight (h counts from 0).
OptionFirst(opts, h) == opts[1]
OptionAt(opts, h) == opts[h + 1]

RECURSIVE Chosen(_, _, _)
Chosen(opts, sel, i) ==
  IF i > Len(opts) THEN <<>>
  ELSE (IF sel[i] THEN <<opts[i]>> ELSE <<>>) \o Chosen(opts, sel, i + 1)

\* What the []string branch of MultiSelect keeps: the selected values that are
\* strings (opt.Value.(string)); values of another type are skipped.
ChosenStrings(opts, sel, ty) == IF ty = "string" THEN Chosen(opts, sel, 1) ELSE <<>>

\* reflect.Value.Set accepts a value for a destination of its own type only.
Assignable(bnd, ty) == (bnd = "ptrString" /\ ty = "string") \/ (bnd = "ptrInt" /\ ty = "int")

\* -------------------------------------------------------------- outcomes
\* What handling one chunk leaves behind: done (the loop ended), the error,
\* the result, and the loop's state.
Cur ==
  [done |-> FALSE, err |-> "nil", res |-> res, buf |-> buf, cursor |-> cursor,
   highlight |-> highlight, selected |-> selected, value |-> value]

End(s, e) == [s EXCEPT !.done = TRUE, !.err = e]

EndWith(s, r) == [s EXCEPT !.done = TRUE, !.err = "nil", !.res = r]

\* ---- Confirm
ConfirmEnterTrue(d) == TRUE
ConfirmEnter(d) == d

\* The switch on key[0] of iterations A, B (which return c.def with an error) and U.
ConfirmBytes(s, im, c, d) ==
  LET b == c[1] IN
  IF b \in CancelBytes(im) THEN
       (IF im = "U" THEN End(s, "canceledNew") ELSE [End(s, "canceledNew") EXCEPT !.res = d])
  ELSE IF b \in {byteCR, byteLF} THEN EndWith(s, ConfirmEnter(d))
  ELSE IF b \in {byteLowerY, byteUpperY} THEN EndWith(s, TRUE)
  ELSE IF b \in {byteLowerN, byteUpperN} THEN EndWith(s, FALSE)
  ELSE (IF im = "U" THEN End(s, "InvalidInput") ELSE [End(s, "InvalidInput") EXCEPT !.res = d])

\* The switch on the event of iteration C.
ConfirmEvent(s, ev, d) ==
  IF IsCancelEvent(ev) THEN End(s, "canceledNew")
  ELSE IF ev.key = "Enter" THEN EndWith(s, ConfirmEnter(d))
  ELSE IF ev.key = "Rune" /\ ev.rune \in {byteLowerY, byteUpperY} THEN EndWith(s, TRUE)
  ELSE IF ev.key = "Rune" /\ ev.rune \in {byteLowerN, byteUpperN} THEN EndWith(s, FALSE)
  ELSE s

\* ---- Input
\* Iterations A, B and U: arrow keys first, then the switch on key[0].
InputBytes(s, im, c, v, bnd) ==
  LET b == c[1] IN
  IF Len(c) >= 3 /\ c[1] = byteESC /\ c[2] = byteBracket /\ c[3] \in {byteA, byteB, byteC, byteD} THEN
       (IF c[3] = byteD THEN [s EXCEPT !.cursor = MoveLeft(s.cursor)]
        ELSE IF c[3] = byteC THEN [s EXCEPT !.cursor = MoveRight(s.buf, s.cursor)]
        ELSE s)
  ELSE IF b \in {byteCR, byteLF} THEN
       (IF im = "U" /\ Rejects(v, s.buf) THEN s
        ELSE LET w == IF bnd # "nil" THEN [s EXCEPT !.value = s.buf] ELSE s
             IN  IF im = "U" THEN End(w, "nil") ELSE EndWith(w, s.buf))
  ELSE IF b \in CancelBytes(im) THEN End(s, "canceledNew")
  ELSE IF b \in {keyBackspace1, keyBackspace2} THEN
       (IF s.cursor > 0
        THEN [s EXCEPT !.buf = DeleteBefore(s.buf, s.cursor), !.cursor = s.cursor - 1]
        ELSE s)
  ELSE IF b >= byteSpace /\ b <= byteTilde THEN
       (IF DecodeRune(c) # RuneError
        THEN [s EXCEPT !.buf = InsertAt(s.buf, s.cursor, DecodeRune(c)), !.cursor = s.cursor + 1]
        ELSE s)
  ELSE s

\* Iteration C.
InputEvent(s, ev, v, bnd) ==
  IF IsCancelEvent(ev) THEN End(s, "ErrCanceled")
  ELSE IF ev.key = "Enter" THEN
       (IF Rejects(v, s.buf) THEN End([s EXCEPT !.res = s.buf], "ValidationError")
        ELSE LET w == IF bnd # "nil" THEN [s EXCEPT !.value = s.buf] ELSE s
             IN  EndWith(w, s.buf))
  ELSE IF ev.key = "Backspace" THEN
       (IF s.cursor > 0
        THEN [s EXCEPT !.buf = DeleteBefore(s.buf, s.cursor), !.cursor = s.cursor - 1]
        ELSE s)
  ELSE IF ev.key = "Left" THEN [s EXCEPT !.cursor = MoveLeft(s.cursor)]
  ELSE IF ev.key = "Right" THEN [s EXCEPT !.cursor = MoveRight(s.buf, s.cursor)]
  ELSE IF ev.key = "Rune" THEN
       [s EXCEPT !.buf = InsertAt(s.buf, s.cursor, ev.rune), !.cursor = s.cursor + 1]
  ELSE IF ev.key = "Space" THEN
       [s EXCEPT !.buf = InsertAt(s.buf, s.cursor, byteSpace), !.cursor = s.cursor + 1]
  ELSE s

\* ---- Select
\* Iterations A, B and U: only the one-byte chunk Ctrl-C cancels.
SelectBytes(s, c, opts) ==
  IF c = <<keyCtrlC>> THEN End(s, "canceledNew")
  ELSE IF c = keyArrowUp THEN [s EXCEPT !.highlight = HighlightUp(s.highlight)]
  ELSE IF c = keyArrowDown THEN [s EXCEPT !.highlight = HighlightDown(s.highlight, Len(opts))]
  ELSE IF c = keyEnter THEN
       (IF s.highlight < Len(opts) THEN EndWith(s, OptionAt(opts, s.highlight)) ELSE End(s, "panic"))
  ELSE s

\* Iteration C: the result goes to the destination through reflection.
SelectEvent(s, ev, opts, bnd, ty) ==
  IF IsCancelEvent(ev) THEN End(s, "ErrCanceled")
  ELSE IF ev.key = "Up" THEN [s EXCEPT !.highlight = HighlightUp(s.highlight)]
  ELSE IF ev.key = "Down" THEN [s EXCEPT !.highlight = HighlightDown(s.highlight, Len(opts))]
  ELSE IF ev.key = "Enter" THEN
       (IF bnd = "nil" THEN End(s, "nil")
        ELSE IF bnd = "nonPtr" THEN End(s, "NotAPointer")
        ELSE IF Assignable(bnd, ty) THEN End([s EXCEPT !.value = OptionAt(opts, s.highlight)], "nil")
        ELSE End(s, "panic"))
  ELSE s

\* ---- MultiSelect
MultiBytes(s, c, opts) ==
  IF c = <<keyCtrlC>> THEN End(s, "canceledNew")
  ELSE IF c = keyArrowUp THEN [s EXCEPT !.highlight = HighlightUp(s.highlight)]
  ELSE IF c = keyArrowDown THEN [s EXCEPT !.highlight = HighlightDown(s.highlight, Len(opts))]
  ELSE IF c = keySpace THEN
       (IF s.highlight < Len(opts) THEN [s EXCEPT !.selected = Toggle(s.selected, s.highlight)]
        ELSE End(s, "panic"))
  ELSE IF c = keyEnter THEN EndWith(s, Chosen(opts, s.selected, 1))
  ELSE s

MultiEvent(s, ev, opts, bnd, ty) ==
  IF IsCancelEvent(ev) THEN End(s, "ErrCanceled")
  ELSE IF ev.key = "Up" THEN [s EXCEPT !.highlight = HighlightUp(s.highlight)]
  ELSE IF ev.key = "Down" THEN [s EXCEPT !.highlight = HighlightDown(s.highlight, Len(opts))]
  ELSE IF ev.key = "Space" THEN [s EXCEPT !.selected = Toggle(s.selected, s.highlight)]
  ELSE IF ev.key = "Enter" THEN
       (IF bnd = "nil" THEN End(s, "nil")
        ELSE IF bnd = "nonPtr" THEN End(s, "NotAPointer")
        ELSE IF bnd = "ptrStringSlice"
             THEN End([s EXCEPT !.value = ChosenStrings(opts, s.selected, ty)], "nil")
        ELSE IF bnd = "ptrAnySlice"
             THEN End([s EXCEPT !.value = Chosen(opts, s.selected, 1)], "nil")
        ELSE IF bnd = "ptrIntSlice" THEN End(s, "panic")
        ELSE End(s, "nil"))
  ELSE s

\* The loop body after the read, for iteration im and kind k with the
\* configuration d (default), opts (options), v (validator), bnd (destination),
\* ty (type of the options' values).
HandleFor(im, k, s, c, d, opts, v, bnd, ty) ==
  IF im = "C" THEN
       (CASE k = "Confirm" -> ConfirmEvent(s, DecodeEvent(c), d)
          [] k = "Input" -> InputEvent(s, DecodeEvent(c), v, bnd)
          [] k = "Select" -> SelectEvent(s, DecodeEvent(c), opts, bnd, ty)
          [] OTHER -> MultiEvent(s, DecodeEvent(c), opts, bnd, ty))
  ELSE (CASE k = "Confirm" -> ConfirmBytes(s, im, c, d)
          [] k = "Input" -> InputBytes(s, im, c, v, bnd)
          [] k = "Select" -> SelectBytes(s, c, opts)
          [] OTHER -> MultiBytes(s, c, opts))

\* The loop body of the prompt that is running.
Handle(s, c) == HandleFor(impl, kind, s, c, def, options, validator, bind, optionValues)

\* The loop, iterated over a sequence of chunks until it ends or the chunks
\* run out.
RECURSIVE RunKeys(_, _, _, _, _, _, _, _, _)
RunKeys(im, k, s, keys, d, opts, v, bnd, ty) ==
  IF keys = <<>> \/ s.done THEN s
  ELSE RunKeys(im, k, HandleFor(im, k, s, Head(keys), d, opts, v, bnd, ty), Tail(keys),
               d, opts, v, bnd, ty)

\* The loop's state on entry: an empty buffer, highlight 0, nothing selected.
LoopStart(opts) ==
  [done |-> FALSE, err |-> "nil", res |-> <<>>, buf |-> <<>>, cursor |-> 0,
   highlight |-> 0, selected |-> [i \in 1..Len(opts) |-> FALSE], value |-> <<>>]

\* -------------------------------------------------------------- rendering
\* runewidth.RuneWidth, for the runes a buffer can hold here: the Hangul Jamo
\* block stands for the wide runes, every other printable rune takes one column.
RuneWidth(r) == IF r >= 4352 /\ r <= 4447 THEN 2 ELSE 1

RECURSIVE StringWidth(_)
StringWidth(s) == IF s = <<>> THEN 0 ELSE RuneWidth(Head(s)) + StringWidth(Tail(s))

\* The Input frame of a title of width tw (0: no title) with left margin m:
\* the columns printed before the buffer. A and B print title and ": ", C the
\* title alone, U the margin and the title.
PrintedBeforeBuffer(im, tw, m) ==
  IF tw = 0 THEN 0
  ELSE IF im \in {"A", "B"} THEN tw + 2
  ELSE IF im = "C" THEN tw
  ELSE m + tw

\* The loop's variable prefix: A and B count the title and two columns, C the
\* title, U the title and one blank.
PrefixWidth(im, tw) ==
  IF tw = 0 THEN 0
  ELSE IF im \in {"A", "B"} THEN tw + 2
  ELSE IF im = "C" THEN tw
  ELSE tw + 1

\* What the terminal does with "\r" and "ESC[<n>C" (cursor forward): it goes to
\* column 0 and n columns to the right, where a parameter of 0 selects the
\* default of 1.
CursorForward(n) == IF n = 0 THEN 1 ELSE n

\* moveCursorRight(prefix + StringWidth(buf[:cursor])): the column the terminal
\* cursor stands in when the frame is done.
CursorColumn(im, tw, m, b, c) ==
  CursorForward(PrefixWidth(im, tw) + StringWidth(SubSeq(b, 1, c)))

\* A list frame: B clears the screen and starts at the top, the others start
\* where the cursor is; every option is one line ended by "\n". Confirm and
\* Input draw on one line and end it with no "\n".
DrawFrame(im, k, opts, r) ==
  IF k \in {"Select", "MultiSelect"}
  THEN (IF im = "B" THEN 0 ELSE r) + Len(opts)
  ELSE r

\* moveCursorUp(times): "ESC[A" times over, each one row up. (A calls its
\* one-row moveCursorUp len(options) times.)
RECURSIVE MoveCursorUp(_, _)
MoveCursorUp(r, times) ==
  IF times = 0 THEN r ELSE MoveCursorUp(IF r > 0 THEN r - 1 ELSE 0, times - 1)

\* The end of the list loops' body: A, C and U move up len(options) rows, B
\* (which clears the screen for every frame) and the one-line prompts do not.
AfterEventOneRow(im, k, opts, r) ==
  IF k \in {"Select", "MultiSelect"} /\ im # "B" THEN MoveCursorUp(r, 1) ELSE r
AfterEvent(im, k, opts, r) ==
  IF k \in {"Select", "MultiSelect"} /\ im # "B" THEN MoveCursorUp(r, Len(opts)) ELSE r

\* The goroutines that call Run at the same time on the one terminal.
Threads == {"run1", "run2"}

\* ------------------------------------------------------------------ Init
ZeroResult(k) ==
  CASE k = "Confirm" -> FALSE
    [] k = "Input" -> <<>>
    [] k = "Select" -> ""
    [] OTHER -> <<>>

\* The destinations for which the loop looks at the type of an option's value:
\* the others fail, or take any value, before the type is consulted.
TypeMatters(k, bnd) ==
  \/ k = "Select" /\ bnd \in {"ptrString", "ptrInt"}
  \/ k = "MultiSelect" /\ bnd = "ptrStringSlice"

InitConfig ==
  /\ impl \in Impls
  /\ kind \in Kinds
  /\ isTTY \in BOOLEAN
  /\ \/ /\ kind = "Confirm"
        /\ def \in BOOLEAN
        /\ options = <<>>
        /\ validator = "none"
        /\ bind \in (IF impl = "C" THEN {"nil", "ptrBool"} ELSE {"nil"})
        /\ optionValues = "string"
        /\ value = def
     \/ /\ kind = "Input"
        /\ def = FALSE
        /\ options = <<>>
        /\ validator \in (IF impl \in {"C", "U"} THEN {"none", "nonEmpty"} ELSE {"none"})
        /\ bind \in {"nil", "ptrString"}
        /\ optionValues = "string"
        /\ value \in (IF bind = "nil" THEN {<<>>} ELSE {<<>>, chunkH})
     \/ /\ kind \in {"Select", "MultiSelect"}
        /\ def = FALSE
        /\ \E n \in 0..MaxOptions : options = SubSeq(AllOptions, 1, n)
        /\ validator = "none"
        /\ bind \in (IF impl = "C" THEN BindTargets ELSE {"nil"})
        /\ optionValues \in (IF impl = "C" /\ Len(options) > 0 /\ TypeMatters(kind, bind)
                             THEN {"string", "int"} ELSE {"string"})
        /\ value = (IF kind = "Select" THEN "" ELSE <<>>)

Init ==
  /\ InitConfig
  /\ pc = "start"
  /\ termMode = "cooked"
  /\ oldState = "nil"
  /\ notified = FALSE
  /\ sigBuf = 0
  /\ obs = "none"
  /\ exited = FALSE
  /\ pending = <<>>
  /\ buf = <<>>
  /\ cursor = 0
  /\ highlight = 0
  /\ selected = <<>>
  /\ res = ZeroResult(kind)
  /\ err = "nil"
  /\ cursorHidden = FALSE
  /\ row = 0
  /\ runs = [t \in Threads |-> [pc |-> "start", saved |-> "nil", reads |-> 0]]
  /\ nReads = 0
  /\ nRestores = 0
  /\ nSignals = 0
  /\ endKey = <<>>
  /\ sigAtRead = FALSE

\* --------------------------------------------------- the thread calling Run
Alive == ~exited

\* Run's first statement: Select and MultiSelect of C and U reject zero options.
RunEntry ==
  /\ Alive /\ pc = "start"
  /\ IF ChecksOptions(impl, kind) /\ Len(options) = 0
     THEN /\ err' = "NoOptions"
          /\ pc' = "returned"
     ELSE /\ pc' = "open"
          /\ UNCHANGED err
  /\ UNCHANGED <<config, runs, row, value, termMode, oldState, notified, sigBuf, obs, exited,
                 pending, buf, cursor, highlight, selected, res, cursorHidden, nReads,
                 nRestores, nSignals, endKey, sigAtRead>>

\* newTerminal: C and U test IsTerminal and read the size; A and B cannot fail.
OpenTerminal ==
  /\ Alive /\ pc = "open"
  /\ \E sizeOK \in BOOLEAN :
       IF OpenChecksTTY(impl) /\ ~isTTY
       THEN /\ sizeOK
            /\ err' = "NotATerminal"
            /\ pc' = "returned"
       ELSE IF OpenChecksTTY(impl) /\ ~sizeOK
       THEN /\ err' = "GetSizeError"
            /\ pc' = "returned"
       ELSE /\ sizeOK
            /\ pc' = (IF UsesRaw(impl, kind) THEN "makeRaw" ELSE "read")
            /\ UNCHANGED err
  /\ UNCHANGED <<config, runs, row, value, termMode, oldState, notified, sigBuf, obs, exited,
                 pending, buf, cursor, highlight, selected, res, cursorHidden, nReads,
                 nRestores, nSignals, endKey, sigAtRead>>

\* term.MakeRaw (enterRaw in A and B, which tests IsTerminal first).
MakeRaw ==
  /\ Alive /\ pc = "makeRaw"
  /\ \E ok \in BOOLEAN :
       IF ~OpenChecksTTY(impl) /\ ~isTTY
       THEN /\ ok
            /\ err' = "NotATerminal"
            /\ pc' = "returned"
            /\ UNCHANGED <<termMode, oldState>>
       ELSE IF ~ok
       THEN /\ err' = "MakeRawError"
            /\ pc' = "returned"
            /\ UNCHANGED <<termMode, oldState>>
       ELSE /\ termMode' = "raw"
            /\ oldState' = "saved"
            /\ pc' = "notify"
            /\ UNCHANGED err
  /\ UNCHANGED <<config, runs, row, value, notified, sigBuf, obs, exited,
                 pending, buf, cursor, highlight, selected, res, cursorHidden, nReads,
                 nRestores, nSignals, endKey, sigAtRead>>

\* sig := make(chan os.Signal, 1); signal.Notify(sig, os.Interrupt, syscall.SIGTERM)
Notify ==
  /\ Alive /\ pc = "notify"
  /\ notified' = TRUE
  /\ pc' = "spawn"
  /\ UNCHANGED <<config, runs, row, value, termMode, oldState, sigBuf, obs, exited,
                 pending, buf, cursor, highlight, selected, res, err, cursorHidden, nReads,
                 nRestores, nSignals, endKey, sigAtRead>>

\* go func() { <-sig; restore; os.Exit(1) }()
Spawn ==
  /\ Alive /\ pc = "spawn"
  /\ obs' = "waiting"
  /\ pc' = "setup"
  /\ UNCHANGED <<config, runs, row, value, termMode, oldState, notified, sigBuf, exited,
                 pending, buf, cursor, highlight, selected, res, err, cursorHidden, nReads,
                 nRestores, nSignals, endKey, sigAtRead>>

\* The statements before the loop: the buffer from *valuePtr, cursor := len(buf),
\* cursor := 0, the selected flags, removeCursor (C: Confirm, Select, MultiSelect),
\* and the first frame.
Setup ==
  /\ Alive /\ pc = "setup"
  /\ buf' = (IF kind = "Input" /\ bind # "nil" THEN value ELSE <<>>)
  /\ cursor' = Len(buf')
  /\ highlight' = 0
  /\ selected' = [i \in 1..Len(options) |-> FALSE]
  /\ cursorHidden' = (impl = "C" /\ kind # "Input")
  /\ row' = DrawFrame(impl, kind, options, row)
  /\ pc' = "read"
  /\ UNCHANGED <<config, runs, value, termMode, oldState, notified, sigBuf, obs, exited,
                 pending, res, err, nReads, nRestores, nSignals, endKey, sigAtRead>>

\* Where the loop's return leads: the deferred signal.Stop if Notify ran, else
\* the deferred restore.
UnwindRetry == "read"
Unwind == IF UsesRaw(impl, kind) THEN "stop" ELSE "restore"

\* readKey / ReadEvent returns a chunk.
ReadKey ==
  /\ Alive /\ pc = "read"
  /\ nReads < MaxKeys
  /\ \E c \in Chunks(kind) :
       /\ pending' = c
       /\ pc' = "handle"
  /\ nReads' = nReads + 1
  /\ UNCHANGED <<config, runs, row, value, termMode, oldState, notified, sigBuf, obs, exited,
                 buf, cursor, highlight, selected, res, err, cursorHidden,
                 nRestores, nSignals, endKey, sigAtRead>>

\* readKey / ReadEvent fails: the loop returns the error (C's deferred bringBack runs).
ReadFail ==
  /\ Alive /\ pc = "read"
  /\ err' = "ReadError"
  /\ res' = (IF impl \in {"A", "B"} /\ kind = "Confirm" THEN def ELSE res)
  /\ cursorHidden' = FALSE
  /\ pc' = Unwind
  /\ UNCHANGED <<config, runs, row, value, termMode, oldState, notified, sigBuf, obs, exited,
                 pending, buf, cursor, highlight, selected, nReads,
                 nRestores, nSignals, endKey, sigAtRead>>

\* The loop body after the read and, if the loop goes on, the next frame.
HandleKey ==
  /\ Alive /\ pc = "handle"
  /\ LET out == Handle(Cur, pending) IN
       /\ buf' = out.buf
       /\ cursor' = out.cursor
       /\ highlight' = out.highlight
       /\ selected' = out.selected
       /\ value' = out.value
       /\ res' = out.res
       /\ err' = out.err
       /\ endKey' = (IF out.done THEN pending ELSE endKey)
       /\ cursorHidden' = (IF out.done THEN FALSE ELSE cursorHidden)
       /\ pc' = (IF out.done THEN Unwind ELSE "read")
       /\ row' = (IF out.done THEN row
                  ELSE DrawFrame(impl, kind, options, AfterEvent(impl, kind, options, row)))
  /\ pending' = <<>>
  /\ UNCHANGED <<config, runs, termMode, oldState, notified, sigBuf, obs, exited,
                 nReads, nRestores, nSignals, sigAtRead>>

\* defer signal.Stop(sig): the deferred call registered last runs first.
DeferStop ==
  /\ Alive /\ pc = "stop"
  /\ notified' = FALSE
  /\ pc' = "restore"
  /\ UNCHANGED <<config, runs, row, value, termMode, oldState, sigBuf, obs, exited,
                 pending, buf, cursor, highlight, selected, res, err, cursorHidden, nReads,
                 nRestores, nSignals, endKey, sigAtRead>>

\* defer func() { _ = t.restore(); fmt.Println() }()
DeferRestore ==
  /\ Alive /\ pc = "restore"
  /\ termMode' = restore(oldState, termMode)
  /\ oldState' = OldStateAfterRestore(impl, oldState)
  /\ nRestores' = RestoreCount(oldState, nRestores)
  /\ pc' = "epilogue"
  /\ UNCHANGED <<config, runs, row, value, notified, sigBuf, obs, exited,
                 pending, buf, cursor, highlight, selected, res, err, cursorHidden, nReads,
                 nSignals, endKey, sigAtRead>>

\* What Run does with runRaw's error: U hands back c.def, "" or nil with an
\* error, and the result of U's Input is the outer res, which the loop never
\* sets; C's Confirm stores res through valuePtr. A panic goes on to the caller.
Epilogue ==
  /\ Alive /\ pc = "epilogue"
  /\ pc' = (IF err = "panic" THEN "panicked" ELSE "returned")
  /\ res' = (IF impl = "U" /\ kind = "Confirm" /\ err # "nil" THEN def
             ELSE IF impl = "U" /\ err # "nil" THEN ZeroResult(kind)
             ELSE res)
  /\ value' = (IF impl = "C" /\ kind = "Confirm" /\ err = "nil" /\ bind # "nil" THEN res
               ELSE value)
  /\ UNCHANGED <<config, runs, row, termMode, oldState, notified, sigBuf, obs, exited,
                 pending, buf, cursor, highlight, selected, err, cursorHidden, nReads,
                 nRestores, nSignals, endKey, sigAtRead>>

Running == pc \notin {"returned", "panicked"}

\* ------------------------------------------------ signals and the observer

\* SIGINT or SIGTERM reaches the process while Run is under way. With Notify in
\* force it is queued on sig (dropped if sig is full); otherwise its default
\* action ends the process.
SignalArrives ==
  /\ Alive /\ Running
  /\ nSignals < MaxSignals
  /\ nSignals' = nSignals + 1
  /\ IF notified
     THEN /\ sigBuf' = 1
          /\ sigAtRead' = (sigAtRead \/ pc = "read")
          /\ UNCHANGED exited
     ELSE /\ exited' = TRUE
          /\ UNCHANGED <<sigBuf, sigAtRead>>
  /\ UNCHANGED <<config, runs, row, value, pc, termMode, oldState, notified, obs,
                 pending, buf, cursor, highlight, selected, res, err, cursorHidden, nReads,
                 nRestores, endKey>>

\* <-sig
ObsReceive ==
  /\ Alive /\ obs = "waiting" /\ sigBuf = 1
  /\ sigBuf' = 0
  /\ obs' = "woken"
  /\ UNCHANGED <<config, runs, row, value, pc, termMode, oldState, notified, exited,
                 pending, buf, cursor, highlight, selected, res, err, cursorHidden, nReads,
                 nRestores, nSignals, endKey, sigAtRead>>

\* t.restore() in the goroutine
ObsRestore ==
  /\ Alive /\ obs = "woken"
  /\ termMode' = restore(oldState, termMode)
  /\ oldState' = OldStateAfterRestore(impl, oldState)
  /\ nRestores' = RestoreCount(oldState, nRestores)
  /\ obs' = "restored"
  /\ UNCHANGED <<config, runs, row, value, pc, notified, sigBuf, exited,
                 pending, buf, cursor, highlight, selected, res, err, cursorHidden, nReads,
                 nSignals, endKey, sigAtRead>>

\* os.Exit(1) in the goroutine
ObsExit ==
  /\ Alive /\ obs = "restored"
  /\ exited' = TRUE
  /\ obs' = "exited"
  /\ UNCHANGED <<config, runs, row, value, pc, termMode, oldState, notified, sigBuf,
                 pending, buf, cursor, highlight, selected, res, err, cursorHidden, nReads,
                 nRestores, nSignals, endKey, sigAtRead>>

Next ==
  \/ RunEntry
  \/ OpenTerminal
  \/ MakeRaw
  \/ Notify
  \/ Spawn
  \/ Setup
  \/ ReadKey
  \/ ReadFail
  \/ HandleKey
  \/ DeferStop
  \/ DeferRestore
  \/ Epilogue
  \/ SignalArrives
  \/ ObsReceive
  \/ ObsRestore
  \/ ObsExit

Spec == Init /\ [][Next]_vars

\* ------------------------------------------------- two Runs at the same time
\* Two goroutines call a prompt's Run on the same terminal. Each runRaw makes
\* its own terminal value, so each has its own saved mode; the terminal's mode
\* is the one thing they share, and nothing in runRaw keeps them apart.

\* term.MakeRaw hands back the mode the terminal was in when it was called.
MakeRawSaves(mode) == mode

\* terminal.restore: term.Restore(fd, oldState) iff a mode was saved.
RestoreSaved(saved, mode) == IF saved = "nil" THEN mode ELSE saved

\* The untouched single-Run variables.
single == <<config, value, pc, oldState, notified, sigBuf, obs, exited, pending,
            buf, cursor, highlight, selected, res, err, cursorHidden, row, nReads,
            nRestores, nSignals, endKey, sigAtRead>>

\* term.MakeRaw, first half: read the terminal's mode (tcgetattr).
EnterSave(t) ==
  /\ runs[t].pc = "start"
  /\ runs' = [runs EXCEPT ![t].pc = "saved", ![t].saved = MakeRawSaves(termMode)]
  /\ UNCHANGED <<single, termMode>>

\* term.MakeRaw, second half: set the raw mode (tcsetattr).
EnterRaw(t) ==
  /\ runs[t].pc = "saved"
  /\ termMode' = "raw"
  /\ runs' = [runs EXCEPT ![t].pc = "loop"]
  /\ UNCHANGED single

\* fn(t): one more key read by the prompt's loop.
LoopRead(t) ==
  /\ runs[t].pc = "loop"
  /\ runs[t].reads < MaxKeys
  /\ runs' = [runs EXCEPT ![t].reads = @ + 1]
  /\ UNCHANGED <<single, termMode>>

\* fn returns; the deferred restore runs and runRaw returns.
ExitRestore(t) ==
  /\ runs[t].pc = "loop"
  /\ termMode' = RestoreSaved(runs[t].saved, termMode)
  /\ runs' = [runs EXCEPT ![t].pc = "returned"]
  /\ UNCHANGED single

InitOverlap == Init /\ impl \in {"C", "U"} /\ isTTY

NextOverlap ==
  \/ \E t \in Threads : EnterSave(t)
  \/ \E t \in Threads : EnterRaw(t)
  \/ \E t \in Threads : LoopRead(t)
  \/ \E t \in Threads : ExitRestore(t)

SpecOverlap == InitOverlap /\ [][NextOverlap]_vars

\* ------------------------------------------------------------ properties

CancelChunks == { <<keyCtrlC>>, <<keyCtrlQ>> }
EnterChunks == { <<byteCR>>, <<byteLF>> }
SetupErrors == {"NoOptions", "NotATerminal", "GetSizeError", "MakeRawError"}

\* Run has come back to its caller after it had entered raw mode.
ReturnedAfterRaw == pc = "returned" /\ UsesRaw(impl, kind) /\ err \notin SetupErrors

\* The iterations whose prompts run through runRaw.
ThroughRunRaw == impl \in {"C", "U"}

\* The step that handles the pending chunk.
HandleStep == pc = "handle" /\ pc' # "handle"

\* C1: in no reachable state has Run returned while the terminal is still in
\* raw mode: on every return path the saved mode has been restored before.
C1_RestoredBeforeReturn == pc = "returned" => termMode = "cooked"

\* C1, its case: Run of the Input prompt came back with the validator's error
\* after raw mode had been entered and restored.
C1_Witness ==
  /\ ReturnedAfterRaw
  /\ err = "ValidationError"
  /\ nRestores = 1
  /\ termMode = "cooked"

\* C2: while a Run through runRaw is under way the terminal is never in raw
\* mode without an observer for SIGINT/SIGTERM being registered.
C2_ObserverCoversRawMode == (ThroughRunRaw /\ termMode = "raw" /\ ~exited) => notified

\* C3: once SIGINT or SIGTERM has been delivered while a prompt run through
\* runRaw was blocked in its key read, Run never returns to its caller (even
\* when no read fails), and the process never ends with the terminal in raw
\* mode.
C3_NoReturnAfterSignalAtRead ==
  (ThroughRunRaw /\ sigAtRead /\ err # "ReadError")
    => (pc # "returned" /\ (exited => termMode = "cooked"))

\* C4: the saved mode is restored at most once in every interleaving, and
\* exactly once by the time a Run that entered raw mode has returned.
C4_RestoredExactlyOnce ==
  ThroughRunRaw => /\ nRestores <= 1
                   /\ ReturnedAfterRaw => nRestores = 1

\* C5: in every prompt kind (of the iterations built on runRaw), handling the
\* one-byte chunk 0x03 or 0x11 ends the loop with the canceled outcome: no
\* further read, no result.
C5_CancelEndsPrompt ==
  [][(ThroughRunRaw /\ HandleStep /\ pending \in CancelChunks)
       => (pc' \in {"stop", "restore"} /\ err' \in {"canceledNew", "ErrCanceled"})]_vars

\* C6: a Run that was ended by Ctrl-C or Ctrl-Q returns the one distinguished
\* value ErrCanceled. (Stated for iteration C, the one that declares
\* ErrCanceled; A, B and U return a fresh errors.New("canceled") everywhere.)
C6_CancelReturnsErrCanceled ==
  (impl = "C" /\ pc = "returned" /\ endKey \in CancelChunks) => err = "ErrCanceled"

\* C7: with standard input not a terminal (and options to choose from), no key
\* is read, raw mode is not entered, nothing is saved or restored, and Run
\* fails with the not-a-terminal error.
C7_NotATerminalFailsFirst ==
  (~isTTY /\ ~(kind \in {"Select", "MultiSelect"} /\ Len(options) = 0))
    => /\ nReads = 0
       /\ termMode = "cooked"
       /\ oldState = "nil"
       /\ nRestores = 0
       /\ pc = "returned" => err = "NotATerminal"

\* C8: Select and MultiSelect with zero options never enter raw mode, never
\* read a key, never index an option, and fail before the loop.
C8_NoOptionsFailsFirst ==
  (isTTY /\ kind \in {"Select", "MultiSelect"} /\ Len(options) = 0)
    => /\ termMode = "cooked"
       /\ oldState = "nil"
       /\ nReads = 0
       /\ err # "panic"
       /\ pc \in {"returned", "panicked"} => err \in SetupErrors

\* C9: a Confirm that Enter ended returns the configured default, one that y or
\* Y ended returns true, one that n or N ended returns false, each with no
\* error (and the same value in the bound destination, where Run returns only
\* the error).
C9_ConfirmAnswers ==
  (kind = "Confirm" /\ pc = "returned")
    => /\ endKey \in EnterChunks => (res = def /\ err = "nil")
       /\ endKey \in { <<byteLowerY>>, <<byteUpperY>> } => (res = TRUE /\ err = "nil")
       /\ endKey \in { <<byteLowerN>>, <<byteUpperN>> } => (res = FALSE /\ err = "nil")
       /\ (endKey \in EnterChunks \cup AnswerChunks /\ impl = "C" /\ bind # "nil")
            => value = res

\* C9, its case: Confirm with default false got the chunk [\r] as its only key
\* and returned false with no error.
C9_Witness ==
  /\ kind = "Confirm" /\ pc = "returned"
  /\ ~def
  /\ endKey = <<byteCR>>
  /\ nReads = 1
  /\ res = FALSE
  /\ err = "nil"

\* C10: in the Input prompt the loop starts with cursor = len(initial value),
\* 0 <= cursor <= len(buffer) holds after every step, and Left at 0 and Right
\* at len(buffer) leave the cursor where it is.
C10_CursorInBounds ==
  [][kind = "Input"
       => /\ 0 <= cursor' /\ cursor' <= Len(buf')
          /\ (pc = "setup" /\ pc' = "read")
               => (cursor' = Len(buf') /\ buf' = (IF bind = "nil" THEN <<>> ELSE value))
          /\ (HandleStep /\ pending = keyArrowLeft /\ cursor = 0) => cursor' = 0
          /\ (HandleStep /\ pending = keyArrowRight /\ cursor = Len(buf))
               => cursor' = cursor]_vars

\* C10, its case: after two keys have acted the cursor stands at 0 before a
\* non-empty buffer and a third key, Left, is about to be handled there.
C10_Witness ==
  /\ kind = "Input" /\ pc = "handle"
  /\ nReads = 3
  /\ pending = keyArrowLeft
  /\ cursor = 0
  /\ Len(buf) > 0

C12_BackspaceDeletesBefore ==
  [][(kind = "Input" /\ HandleStep /\ pending \in { <<keyBackspace1>>, <<keyBackspace2>> })
       => /\ pc' = "read"
          /\ IF cursor > 0
             THEN /\ Len(buf') = Len(buf) - 1
                  /\ cursor' = cursor - 1
                  /\ \A i \in 1..Len(buf') : buf'[i] = buf[IF i < cursor THEN i ELSE i + 1]
             ELSE buf' = buf /\ cursor' = cursor]_vars

\* C12, its case: three keys on the initial value "h" have left the buffer " "
\* with the cursor at 0, which takes a Backspace that removed the h from
\* before a cursor > 0 (Space, Left, Backspace removes it from the middle).
C12_Witness ==
  /\ kind = "Input" /\ pc = "read"
  /\ bind = "ptrString" /\ value = chunkH
  /\ nReads = 3
  /\ buf = <<byteSpace>>
  /\ cursor = 0

\* C13: when Enter has ended the Input prompt with no error (validation passed
\* or no validator is set), the string Run returns (in the iterations whose Run
\* returns one) and the string stored through the Value pointer both equal
\* the buffer as it was when Enter was handled.
C13_CommitsBufferAtEnter ==
  (kind = "Input" /\ pc = "returned" /\ err = "nil" /\ endKey \in EnterChunks)
    => /\ impl # "C" => res = buf
       /\ bind # "nil" => value = buf

\* C14: when the Input prompt handles Enter and the validator rejects the
\* buffer, the loop goes on (the prompt stays in Editing) with no error, and
\* buffer, cursor and the caller's storage are as they were.
C14_RejectionStaysInEditing ==
  [][(kind = "Input" /\ HandleStep /\ pending \in EnterChunks /\ Rejects(validator, buf))
       => /\ pc' = "read"
          /\ err' = "nil"
          /\ buf' = buf
          /\ cursor' = cursor
          /\ value' = value]_vars

\* C15: in Select and MultiSelect over a non-empty list, 0 <= highlight <
\* len(options) holds from the first frame on and after every key, Up at
\* highlight 0 and Down at the last index leave the highlight where it is (no
\* wraparound), and elsewhere Up and Down move it by exactly one.
C15_HighlightInBounds ==
  [][(kind \in {"Select", "MultiSelect"} /\ Len(options) > 0)
       => /\ 0 <= highlight' /\ highlight' < Len(options)
          /\ (HandleStep /\ pending = keyArrowUp)
               => highlight' = (IF highlight = 0 THEN 0 ELSE highlight - 1)
          /\ (HandleStep /\ pending = keyArrowDown)
               => highlight' = (IF highlight = Len(options) - 1 THEN highlight ELSE highlight + 1)
          /\ (HandleStep /\ pending \notin {keyArrowUp, keyArrowDown})
               => highlight' = highlight]_vars

\* C15, its case: two Downs have brought the highlight to the last of three
\* options and a third Down is about to be handled there.
C15_Witness ==
  /\ kind \in {"Select", "MultiSelect"} /\ pc = "handle"
  /\ Len(options) = 3
  /\ nReads = 3
  /\ highlight = 2
  /\ pending = keyArrowDown

C17_SpaceTogglesHighlighted ==
  [][(kind = "MultiSelect" /\ Len(options) > 0)
       => /\ (HandleStep /\ pending = keySpace)
               => /\ pc' = "read"
                  /\ err' = "nil"
                  /\ highlight' = highlight
                  /\ Len(selected') = Len(options)
                  /\ \A i \in 1..Len(options) :
                       selected'[i] = (IF i = highlight + 1 THEN ~selected[i] ELSE selected[i])
          /\ pc = "handle"
               => LET out == RunKeys(impl, kind, Cur, <<keySpace, keySpace>>,
                                     def, options, validator, bind, optionValues)
                  IN  ~out.done /\ out.selected = selected /\ out.highlight = highlight]_vars

\* C17, its case: over three options Down and Space have acted: the second
\* option, and only it, is selected, and the highlight still stands on it.
C17_Witness ==
  /\ kind = "MultiSelect" /\ pc = "read"
  /\ Len(options) = 3
  /\ nReads = 2
  /\ highlight = 1
  /\ selected = <<FALSE, TRUE, FALSE>>

\* C18: a MultiSelect that Enter ended with no error hands back the values of
\* exactly the options whose selected flag is true, in list order: as Run's
\* result in the iterations whose Run returns one, and in a slice destination
\* in iteration C. Options [a,b,c] with the keys Down, Space, Down, Space,
\* Enter give [b,c].
C18_MultiReturnsSelectedInOrder ==
  LET IsSelected(v) == \E i \in 1..Len(options) : options[i] = v /\ selected[i]
      example == RunKeys(impl, "MultiSelect", LoopStart(<<"a", "b", "c">>),
                         <<keyArrowDown, keySpace, keyArrowDown, keySpace, keyEnter>>,
                         FALSE, <<"a", "b", "c">>, "none",
                         IF impl = "C" THEN "ptrStringSlice" ELSE "nil", "string")
  IN  /\ (kind = "MultiSelect" /\ pc = "returned" /\ Len(options) > 0
            /\ endKey \in EnterChunks /\ err = "nil")
           => /\ impl # "C" => res = SelectSeq(options, IsSelected)
              /\ (impl = "C" /\ bind \in {"ptrStringSlice", "ptrAnySlice"})
                   => value = SelectSeq(options, IsSelected)
      /\ kind = "MultiSelect"
           => (example.done /\ example.err = "nil"
                 /\ (IF impl = "C" THEN example.value ELSE example.res) = <<"b", "c">>)

\* C19: when the key read fails the loop ends at once with the read's error:
\* from then on the error stays the read's, no further read is made, the
\* caller's storage is not written, and when Run has returned the terminal is
\* restored, no key has ended the loop and no result is handed back.
C19_ReadFailureEndsPrompt ==
  [][/\ (pc = "read" /\ err' = "ReadError")
          => (pc' \in {"stop", "restore"} /\ value' = value /\ nReads' = nReads)
     /\ err = "ReadError"
          => /\ err' = "ReadError"
             /\ value' = value
             /\ nReads' = nReads
             /\ pc' \notin {"read", "handle"}
             /\ pc' = "returned"
                  => /\ termMode' = "cooked"
                     /\ endKey' = <<>>
                     /\ res' = (IF kind = "Confirm" /\ impl # "C" THEN def ELSE ZeroResult(kind))]_vars

\* C19, its case: an Input prompt in raw mode had taken two keys when its third
\* read failed; Run has returned the read's error after one restore.
C19_Witness ==
  /\ kind = "Input" /\ pc = "returned"
  /\ err = "ReadError"
  /\ nReads = 2
  /\ Len(buf) > 0
  /\ nRestores = 1
  /\ termMode = "cooked"

\* C20: in every reachable state the wrapper's saved mode is non-null exactly
\* when the terminal is in raw mode: null before raw mode is entered, and null
\* again once restore has run.
C20_SavedModeIffRaw == (oldState # "nil") <=> (termMode = "raw")

\* C21: in iteration C (the one with Value destinations for lists), a Select
\* or MultiSelect with a destination set that Enter has ended either ended
\* with no error and the result in the destination, or with the
\* invalid-bind-target error; it never crashed and never succeeded with the
\* destination unwritten.
C21_BindWritesOrFails ==
  LET IsSelected(v) == \E i \in 1..Len(options) : options[i] = v /\ selected[i]
  IN  (impl = "C" /\ kind \in {"Select", "MultiSelect"} /\ bind # "nil"
         /\ endKey \in EnterChunks /\ pc \in {"returned", "panicked"})
        => \/ err = "NotAPointer"
           \/ /\ err = "nil"
              /\ value = (IF kind = "Select" THEN options[highlight + 1]
                          ELSE SelectSeq(options, IsSelected))

\* C22: when Confirm handles a key other than Enter, y, Y, n, N, Ctrl-C and
\* Ctrl-Q, no implementation of the repository takes it as an answer, the
\* implementation that runs treats every such key alike, and all four
\* implementations treat it by the same rule: all re-prompt or all fail with
\* InvalidInput.
C22_OtherKeysOneRule ==
  LET OtherKeys == Chunks("Confirm") \ (EnterChunks \cup AnswerChunks \cup CancelChunks)
      out(im, c) == HandleFor(im, "Confirm", Cur, c, def, options, validator, bind, optionValues)
  IN  (kind = "Confirm" /\ pc = "handle" /\ pending \in OtherKeys)
        => /\ \A im \in Impls : ~(out(im, pending).done /\ out(im, pending).err = "nil")
           /\ \A c \in OtherKeys :
                /\ out(impl, c).done = out(impl, pending).done
                /\ out(impl, c).err = out(impl, pending).err
           /\ \A im \in Impls :
                /\ out(im, pending).done = out(impl, pending).done
                /\ out(im, pending).err = out(impl, pending).err

\* C23: in every prompt kind (of the iterations built on runRaw), handling a
\* chunk that begins with ESC and is none of the four arrow sequences changes
\* neither buffer, cursor, highlight nor selected flags, raises no error and
\* the loop goes on.
C23_OtherEscapeIgnored ==
  [][(ThroughRunRaw /\ HandleStep /\ pending # <<>> /\ pending[1] = byteESC
        /\ pending \notin {keyArrowUp, keyArrowDown, keyArrowRight, keyArrowLeft})
       => /\ pc' = "read"
          /\ err' = "nil"
          /\ buf' = buf
          /\ cursor' = cursor
          /\ highlight' = highlight
          /\ selected' = selected]_vars

\* C24: when the Input prompt handles a chunk holding one well-formed
\* multi-byte UTF-8 sequence (here the two bytes of U+00E9), the code point is
\* inserted at the cursor like a printable ASCII rune: the buffer grows by
\* one, the code point stands at the old cursor and the cursor advances; a
\* malformed sequence (a lone lead byte) leaves buffer and cursor as they are.
C24_Utf8Inserted ==
  [][(kind = "Input" /\ HandleStep)
       => /\ pending = chunkEAcute
               => /\ Len(buf') = Len(buf) + 1
                  /\ buf'[cursor + 1] = 233
                  /\ cursor' = cursor + 1
                  /\ pc' = "read"
          /\ pending = chunkBadUtf8
               => (buf' = buf /\ cursor' = cursor /\ pc' = "read")]_vars

\* C25: whenever the Input prompt has drawn its frame and waits for a key, the
\* terminal cursor's column is the width of what was printed before the
\* buffer (left margin and title) plus the display width of buffer[0..cursor),
\* for every title width, every left margin (a theme setting of U) and every
\* cursor position, the cursor at 0 with no title included.
C25_CursorColumnMatches ==
  (kind = "Input" /\ pc = "read")
    => \A tw \in 0..MaxTitleWidth :
         \A m \in (IF impl = "U" THEN 0..MaxMargin ELSE {0}) :
           CursorColumn(impl, tw, m, buf, cursor)
             = PrintedBeforeBuffer(impl, tw, m) + StringWidth(SubSeq(buf, 1, cursor))

\* C26: in Select and MultiSelect drawn without the full clear (iterations A,
\* C and U), every handled event that does not end the prompt leaves the next
\* frame on the row of the one before: the cursor, which the frame left as many
\* rows down as it has option lines, is moved up by exactly that many rows, so
\* every frame starts on the row where the first one began.
C26_FrameStaysOnRow ==
  [][(HandleStep /\ pc' = "read" /\ kind \in {"Select", "MultiSelect"} /\ impl # "B")
       => (row = Len(options) /\ row' = row)]_vars

\* C26, its case: a list of three options has been drawn a second time, after
\* an event that did not end the prompt, and the cursor is three rows below the
\* row where the first frame began.
C26_Witness ==
  /\ kind \in {"Select", "MultiSelect"} /\ impl # "B"
  /\ Len(options) = 3
  /\ pc = "read" /\ nReads >= 1
  /\ row = 3

\* C27: in the iteration that has removeCursor and bringBack, Select and
\* MultiSelect have the cursor hidden while their frames are on the screen, the
\* cursor is shown again in every state in which the prompt has ended (Run has
\* returned with any outcome, or the signal's observer has ended the process),
\* and Input never has it hidden.
C27_CursorShownAgain ==
  impl = "C" =>
    /\ (kind \in {"Select", "MultiSelect"} /\ pc \in {"read", "handle"}) => cursorHidden
    /\ (kind \in {"Select", "MultiSelect"} /\ (pc = "returned" \/ exited)) => ~cursorHidden
    /\ kind = "Input" => ~cursorHidden

\* C28: with no signal delivered, every step in which a prompt of any kind
\* reads a key is taken with the terminal in raw mode: raw mode was entered
\* before the first read and is still active at the last one.
C28_KeysReadInRawMode ==
  [][(pc = "read" /\ pc' = "handle" /\ nSignals = 0) => termMode = "raw"]_vars

\* C29: in the iteration that keeps the selected flag on the caller's Option
\* values, a MultiSelect Run over options that were all unselected before it,
\* and that has returned ErrCanceled or a read error, has left every option
\* unselected, as before the Run.
C29_AbandonedRunKeepsFlags ==
  (impl = "C" /\ kind = "MultiSelect" /\ pc = "returned"
     /\ err \in {"ErrCanceled", "ReadError"})
    => \A i \in 1..Len(selected) : ~selected[i]

\* C30: when two Runs on the same terminal have both returned, in whatever
\* order their steps of entering raw mode and of restoring were taken, the
\* terminal is in the mode it had before the first of them started.
C30_OverlapRestoresOriginal ==
  (\A t \in Threads : runs[t].pc = "returned") => termMode = "cooked"

\* C31: once Run of a prompt that goes through runRaw has returned, the
\* observer goroutine it started takes no further step that calls restore or
\* ends the process, also when the signal was delivered before Run returned.
C31_ObserverEndsWithRun ==
  [][(ThroughRunRaw /\ pc = "returned" /\ obs' # obs)
       => obs' \notin {"restored", "exited"}]_vars

====
